---- MODULE Spec2Model ----
(***************************************************************************)
(* A model of the User REST service of app.py / models.py: the `user`      *)
(* table held by the SQLite store named in config.py, the request decoder  *)
(* check_incoming_data, the User entity with its derived properties, and   *)
(* the four resource handlers (list, create, fetch-by-id, delete-by-id).   *)
(* Each handler runs to completion inside one action; the store is the     *)
(* only state that survives a request.  request/response hold the request  *)
(* last served and the (body, status) tuple its handler returned.          *)
(***************************************************************************)
EXTENDS Integers, Sequences, FiniteSets, TLC

\* Largest primary key the model lets the store hand out or a client name.
MaxId == 2

\* db.String(20): the declared length of first_name and last_name.
StringLimit == 20

(***************************************************************************)
(* JSON / Python values.  None, str and int are kept apart by a tag so     *)
(* that None and the text "None" are different values.                     *)
(***************************************************************************)
None == [kind |-> "null"]
JStr(s) == [kind |-> "str", val |-> s]
JInt(n) == [kind |-> "int", val |-> n]

\* A name of 24 characters, longer than the declared column length.
LongName == "Wolfeschlegelsteinhausen"

\* Values a client sends for first_name / last_name (JSON null or a string).
FirstNameValues == {None, JStr("Ada"), JStr(LongName)}
LastNameValues == {JStr("Lovelace")}

\* Ids a client may name in a URL: the small ids and the 999 of the scenario.
UrlIds == (1..MaxId) \cup {999}

(***************************************************************************)
(* The User class of models.py.                                            *)
(***************************************************************************)
\* The mapped columns: id, first_name, last_name.
Columns == {"id", "first_name", "last_name"}

\* The read-only @property attributes (no setter is defined).
Properties == {"email", "name", "as_dictionary"}

\* Other attributes the class body defines.
Methods == {"__str__"}

\* hasattr(User, k): what the declarative constructor tests for each key.
hasattr_User(k) == k \in Columns \cup Properties \cup Methods

\* f"{x}" of a name column: None formats as the text None.
Format(v) == IF v = None THEN "None" ELSE v.val

\* f"{n}" of a small non-negative integer.
Digit(d) == <<"0", "1", "2", "3", "4", "5", "6", "7", "8", "9">>[d + 1]

RECURSIVE FormatInt(_)
FormatInt(n) == IF n < 10 THEN Digit(n) ELSE FormatInt(n \div 10) \o Digit(n % 10)

\* User.email
email(u) == Format(u.first_name) \o "." \o Format(u.last_name) \o "@tudublin.ie"

\* name with the separating space forgotten.
name_NoSeparator(u) == Format(u.first_name) \o Format(u.last_name)

\* User.name
name(u) == Format(u.first_name) \o " " \o Format(u.last_name)

\* User.as_dictionary
as_dictionary(u) ==
    [id |-> u.id, first_name |-> u.first_name, last_name |-> u.last_name,
     full_name |-> name(u), email |-> email(u)]

(***************************************************************************)
(* User(kwargs), the declarative constructor.  Every key must be an        *)
(* attribute of the class (else TypeError) and is then set on the          *)
(* instance; setting a property without a setter raises AttributeError,    *)
(* setting any other class attribute only shadows it on the instance.      *)
(* Columns that are not supplied stay None.                                *)
(***************************************************************************)
Field(kwargs, k) == IF k \in DOMAIN kwargs THEN kwargs[k] ELSE None

User(kwargs) ==
    IF \E k \in DOMAIN kwargs : ~hasattr_User(k)
    THEN [ok |-> FALSE,
          error |-> "'" \o (CHOOSE k \in DOMAIN kwargs : ~hasattr_User(k))
                        \o "' is an invalid keyword argument for User"]
    ELSE IF \E k \in DOMAIN kwargs : k \in Properties
    THEN [ok |-> FALSE, error |-> "can't set attribute"]
    ELSE [ok |-> TRUE,
          id |-> Field(kwargs, "id"),
          first_name |-> Field(kwargs, "first_name"),
          last_name |-> Field(kwargs, "last_name")]

(***************************************************************************)
(* The store: table `user` of the SQLite database, a function from the     *)
(* primary keys present to the rows [first_name, last_name].               *)
(***************************************************************************)
Ids(st) == DOMAIN st

Max(S) == CHOOSE x \in S : \A y \in S : y <= x
Min(S) == CHOOSE x \in S : \A y \in S : x <= y

\* The key SQLite gives a row inserted without one.  The column is an
\* INTEGER PRIMARY KEY without the AUTOINCREMENT keyword, so it is one more
\* than the largest key now in the table.
NextRowid(st) == IF Ids(st) = {} THEN 1 ELSE Max(Ids(st)) + 1

\* The key the row of a new User gets: its own id when one was set.
RowId(st, user) == IF user.id = None THEN NextRowid(st) ELSE user.id.val

\* An insert that rewrites the table to the new row alone.
Insert_Replacing(st, id, user) ==
    [i \in {id} |-> [first_name |-> user.first_name, last_name |-> user.last_name]]

\* INSERT of one row; VARCHAR(20) is a type name only, the text is stored whole.
Insert(st, id, user) ==
    [i \in Ids(st) \cup {id} |->
        IF i = id THEN [first_name |-> user.first_name, last_name |-> user.last_name]
        ELSE st[i]]

\* A delete that is staged and never committed.
Remove_Uncommitted(st, id) == st

\* db.session.delete(user); db.session.commit()
Remove(st, id) == [i \in Ids(st) \ {id} |-> st[i]]

\* The User object loaded for the row with key id.
Load(st, id) == [id |-> id, first_name |-> st[id].first_name, last_name |-> st[id].last_name]

\* db.session.query(User).all(): the rows in primary-key order.
RECURSIVE InOrder(_)
InOrder(S) == IF S = {} THEN <<>> ELSE <<Min(S)>> \o InOrder(S \ {Min(S)})

\* The rows in decreasing order of key.
query_all_Descending(st) ==
    [i \in 1..Cardinality(Ids(st)) |->
        Load(st, InOrder(Ids(st))[Cardinality(Ids(st)) + 1 - i])]

query_all(st) == [i \in 1..Cardinality(Ids(st)) |-> Load(st, InOrder(Ids(st))[i])]

(***************************************************************************)
(* Request bodies.                                                         *)
(*   dict       a JSON object (possibly empty)                             *)
(*   list       any other truthy JSON value                                *)
(*   text       a body that is not JSON: get_json() gives None             *)
(*   malformed  a JSON body that does not parse: get_json() raises         *)
(***************************************************************************)
\* The mappings a client sends: the two names in every combination, and one
\* more key (a client-chosen id, a read-only property, a method name, a name
\* the class does not have) alone or beside a first_name.
NameFields ==
    {f @@ l : f \in {<<>>} \cup {[first_name |-> v] : v \in FirstNameValues},
              l \in {<<>>} \cup {[last_name |-> v] : v \in LastNameValues}}

ExtraFields ==
    {[id |-> JInt(n)] : n \in 1..MaxId}
        \cup {[email |-> JStr("a@b.ie")], ("__str__" :> JStr("x")), [age |-> JInt(1)]}

Mappings ==
    NameFields \cup {f @@ x : f \in {<<>>, [first_name |-> JStr("Ada")]}, x \in ExtraFields}

Bodies ==
    {[kind |-> "dict", map |-> m] : m \in Mappings}
        \cup {[kind |-> "list"], [kind |-> "text"], [kind |-> "malformed"]}

\* Python truth of what get_json() returned.
Truthy(body) ==
    CASE body.kind = "dict" -> DOMAIN body.map # {}
      [] body.kind = "list" -> TRUE
      [] OTHER -> FALSE

\* check_incoming_data: the decoded JSON when it is truthy; otherwise the raw
\* body re-encoded by json.dumps, which is a (never empty) str; False when
\* decoding raised.
check_incoming_data(body) ==
    IF body.kind = "malformed" THEN [kind |-> "False"]
    ELSE IF Truthy(body) THEN body
    ELSE [kind |-> "str"]

(***************************************************************************)
(* Responses: the (body, status) tuple a handler returns.                  *)
(***************************************************************************)
Empty(status) == [status |-> status, body |-> [kind |-> "empty"]]
Error(msg) == [status |-> 400, body |-> [kind |-> "error", error |-> msg]]

NotFound(user_id) == "Couldn't find user with id, " \o FormatInt(user_id)

\* UserResource.get
UserResource_get(st) ==
    [store |-> st,
     response |-> [status |-> 200,
                   body |-> [kind |-> "list",
                             users |-> [i \in 1..Cardinality(Ids(st)) |->
                                           as_dictionary(query_all(st)[i])]]]]

\* A create whose decode failure is raised outside the try block and leaves
\* the handler as an unhandled fault.
UserResource_post_Unguarded(st, body) ==
    LET incoming == check_incoming_data(body) IN
    IF incoming.kind = "False"
    THEN [store |-> st, response |-> [status |-> 500, body |-> [kind |-> "fault"]]]
    ELSE IF incoming.kind # "dict"
    THEN [store |-> st,
          response |-> Error("argument after ** must be a mapping, not " \o incoming.kind)]
    ELSE LET new_user == User(incoming.map) IN
         IF ~new_user.ok
         THEN [store |-> st, response |-> Error(new_user.error)]
         ELSE IF RowId(st, new_user) \in Ids(st)
         THEN [store |-> st,
               response |-> Error("(sqlite3.IntegrityError) UNIQUE constraint failed: user.id")]
         ELSE [store |-> Insert(st, RowId(st, new_user), new_user),
               response |-> Empty(201)]

\* UserResource.post
UserResource_post(st, body) ==
    LET incoming == check_incoming_data(body) IN
    IF incoming.kind = "False"
    THEN [store |-> st, response |-> Error("Invalid or missing User data")]
    ELSE IF incoming.kind # "dict"
    THEN [store |-> st,
          response |-> Error("argument after ** must be a mapping, not " \o incoming.kind)]
    ELSE LET new_user == User(incoming.map) IN
         IF ~new_user.ok
         THEN [store |-> st, response |-> Error(new_user.error)]
         ELSE IF RowId(st, new_user) \in Ids(st)
         THEN [store |-> st,
               response |-> Error("(sqlite3.IntegrityError) UNIQUE constraint failed: user.id")]
         ELSE [store |-> Insert(st, RowId(st, new_user), new_user),
               response |-> Empty(201)]

\* UserResourceId.get
UserResourceId_get(st, user_id) ==
    IF user_id \notin Ids(st)
    THEN [store |-> st, response |-> Error(NotFound(user_id))]
    ELSE [store |-> st,
          response |-> [status |-> 200,
                        body |-> [kind |-> "user", user |-> as_dictionary(Load(st, user_id))]]]

\* A delete that answers 204 whether or not the record exists.
UserResourceId_delete_Silent(st, user_id) ==
    [store |-> Remove(st, user_id), response |-> Empty(204)]

\* UserResourceId.delete
UserResourceId_delete(st, user_id) ==
    IF user_id \notin Ids(st)
    THEN [store |-> st, response |-> Error(NotFound(user_id))]
    ELSE [store |-> Remove(st, user_id), response |-> Empty(204)]

(***************************************************************************)
(* State.                                                                  *)
(*   store        the rows of table user                                   *)
(*   request      the request last served                                  *)
(*   response     what its handler returned                                *)
(*   new_user_id  the key of the row the last request inserted, else 0     *)
(*   prev         the row the request served before it made or removed     *)
(*   issued       history: every key a create has been given so far        *)
(*   live         history: keys created (201) and not since deleted (204)  *)
(***************************************************************************)
VARIABLES store, request, response, new_user_id, prev, issued, live

vars == <<store, request, response, new_user_id, prev, issued, live>>

\* What is kept of a request once the next one is served: the row it made
\* (a create answered 201) or removed (a delete answered 204), if any.
Served ==
    IF request.op = "post" /\ response.status = 201
    THEN [op |-> "post", status |-> 201, user_id |-> new_user_id]
    ELSE IF request.op = "delete" /\ response.status = 204
    THEN [op |-> "delete", status |-> 204, user_id |-> request.user_id]
    ELSE [op |-> "other", status |-> 0, user_id |-> 0]

Init ==
    /\ store = <<>>
    /\ request = [op |-> "none", user_id |-> 0]
    /\ response = [status |-> 0, body |-> [kind |-> "none"]]
    /\ new_user_id = 0
    /\ prev = [op |-> "other", status |-> 0, user_id |-> 0]
    /\ issued = {}
    /\ live = {}

\* GET /user/
ListRequest ==
    LET r == UserResource_get(store) IN
    /\ request' = [op |-> "list", user_id |-> 0]
    /\ store' = r.store
    /\ response' = r.response
    /\ new_user_id' = 0
    /\ prev' = Served
    /\ UNCHANGED <<issued, live>>

\* POST /user/
CreateRequest ==
    \E body \in Bodies :
        LET r == UserResource_post(store, body)
            made == Ids(r.store) \ Ids(store)
        IN
        /\ \A i \in made : i <= MaxId
        /\ request' = [op |-> "post", user_id |-> 0, body |-> body]
        /\ store' = r.store
        /\ response' = r.response
        /\ new_user_id' = IF r.response.status = 201 /\ made # {} THEN Max(made) ELSE 0
        /\ prev' = Served
        /\ issued' = IF r.response.status = 201 THEN issued \cup made ELSE issued
        /\ live' = IF r.response.status = 201 THEN live \cup made ELSE live

\* GET /user/<int:user_id>/
FetchRequest ==
    \E user_id \in UrlIds :
        LET r == UserResourceId_get(store, user_id) IN
        /\ request' = [op |-> "get", user_id |-> user_id]
        /\ store' = r.store
        /\ response' = r.response
        /\ new_user_id' = 0
        /\ prev' = Served
        /\ UNCHANGED <<issued, live>>

\* DELETE /user/<int:user_id>/
DeleteRequest ==
    \E user_id \in UrlIds :
        LET r == UserResourceId_delete(store, user_id) IN
        /\ request' = [op |-> "delete", user_id |-> user_id]
        /\ store' = r.store
        /\ response' = r.response
        /\ new_user_id' = 0
        /\ prev' = Served
        /\ issued' = issued
        /\ live' = IF r.response.status = 204 THEN live \ {user_id} ELSE live

Next == ListRequest \/ CreateRequest \/ FetchRequest \/ DeleteRequest

Spec == Init /\ [][Next]_vars

(***************************************************************************)
(* Properties of the service.                                              *)
(***************************************************************************)
NameColumns == {"first_name", "last_name"}

\* The request is a create whose body is a JSON object.
IsCreate(req) == req.op = "post" /\ req.body.kind = "dict"

\* The request is a create that supplies both names as strings.
SubmitsBothNames(req) ==
    /\ IsCreate(req)
    /\ NameColumns \subseteq DOMAIN req.body.map
    /\ \A k \in NameColumns : req.body.map[k].kind = "str"

\* d is the dictionary of a user with the names fn and ln (two strings).
DictionaryOf(d, fn, ln) ==
    /\ d.first_name = fn
    /\ d.last_name = ln
    /\ d.full_name = fn.val \o " " \o ln.val
    /\ d.email = fn.val \o "." \o ln.val \o "@tudublin.ie"

\* C1: when a create that submitted a first_name and a last_name has
\* answered 201, the list served next holds, under the new record's id, a
\* dictionary with the submitted names, full_name = first_name + " " +
\* last_name and email = first_name + "." + last_name + "@tudublin.ie", and
\* the fetch of the new id served next answers 200 with that dictionary.
C1_CreateThenRead ==
    [][(SubmitsBothNames(request) /\ response.status = 201) =>
         LET fn == request.body.map["first_name"]
             ln == request.body.map["last_name"]
         IN
         /\ request'.op = "list" =>
               /\ response'.status = 200
               /\ response'.body.kind = "list"
               /\ \E i \in DOMAIN response'.body.users :
                     /\ response'.body.users[i].id = new_user_id
                     /\ DictionaryOf(response'.body.users[i], fn, ln)
         /\ (request'.op = "get" /\ request'.user_id = new_user_id) =>
               /\ response'.status = 200
               /\ response'.body.kind = "user"
               /\ response'.body.user.id = new_user_id
               /\ DictionaryOf(response'.body.user, fn, ln)]_vars

\* A fetch of the record a create has just made returns Ada Lovelace.
C1_Witness ==
    /\ prev.op = "post"
    /\ request.op = "get"
    /\ request.user_id = prev.user_id
    /\ response.status = 200
    /\ response.body.user.full_name = "Ada Lovelace"
    /\ response.body.user.email = "Ada.Lovelace@tudublin.ie"

\* C2: a create whose body is a JSON object with no key but first_name and
\* last_name (the empty object included) answers 201 with an empty body and
\* adds exactly one record, whose names are the supplied ones and null where
\* none was supplied.
C2_NamesOnlyCreateSucceeds ==
    [][(IsCreate(request') /\ DOMAIN request'.body.map \subseteq NameColumns) =>
         /\ response' = Empty(201)
         /\ \E id \in Ids(store') \ Ids(store) :
               /\ Ids(store') = Ids(store) \cup {id}
               /\ store'[id] = [first_name |-> Field(request'.body.map, "first_name"),
                                last_name |-> Field(request'.body.map, "last_name")]
         /\ \A i \in Ids(store) : store'[i] = store[i]]_vars

\* C3: the id the store assigns to a newly created user is none of the ids
\* given to a user by an earlier create, deleted since or not.
C3_IdNeverReused ==
    [][(IsCreate(request') /\ "id" \notin DOMAIN request'.body.map
            /\ response'.status = 201) =>
         new_user_id' \notin issued]_vars

\* C4: a create whose JSON object has a key that is not a field of User
\* answers 400 with an error payload and leaves the store as it was.
C4_UnknownKeyRejected ==
    [][(IsCreate(request') /\ \E k \in DOMAIN request'.body.map : k \notin Columns) =>
         /\ response'.status = 400
         /\ response'.body.kind = "error"
         /\ store' = store]_vars

C6_DeleteIsImmediate ==
    (prev.op = "delete" /\ request.op \in {"get", "delete"}
        /\ request.user_id = prev.user_id) =>
      /\ response.status = 400
      /\ response.body.kind = "error"
      /\ response.body.error = NotFound(request.user_id)

\* A second delete of the id just deleted has been answered.
C6_Witness ==
    /\ prev.op = "delete"
    /\ prev.status = 204
    /\ request.op = "delete"
    /\ request.user_id = prev.user_id
    /\ response.status = 400

\* C7: a list answers 200 with one dictionary for each user created and not
\* since deleted and no other, in increasing order of id, each the
\* projection of its stored row; with no such user it is the empty sequence.
C7_ListIsTheLiveUsers ==
    request.op = "list" =>
      /\ response.status = 200
      /\ response.body.kind = "list"
      /\ LET users == response.body.users IN
         /\ DOMAIN users = 1..Cardinality(live)
         /\ {users[i].id : i \in DOMAIN users} = live
         /\ \A i, j \in DOMAIN users : i < j => users[i].id < users[j].id
         /\ \A i \in DOMAIN users :
               /\ users[i].id \in Ids(store)
               /\ users[i].first_name = store[users[i].id].first_name
               /\ users[i].last_name = store[users[i].id].last_name
               /\ users[i].full_name
                     = Format(users[i].first_name) \o " " \o Format(users[i].last_name)
               /\ users[i].email
                     = Format(users[i].first_name) \o "." \o Format(users[i].last_name)
                         \o "@tudublin.ie"
         /\ live = {} => users = <<>>

\* A list of two users has been answered.
C7_Witness ==
    /\ request.op = "list"
    /\ response.status = 200
    /\ Cardinality(DOMAIN response.body.users) = 2

C9_NamesFitTheColumn ==
    \A id \in Ids(store) : \A k \in NameColumns :
        store[id][k] = None \/ Len(store[id][k].val) <= StringLimit

\* C10: a delete answered 204 removes the record of its id and no other and
\* changes none that stays; a create answered 201 adds one record and changes
\* none that was there; a list, a fetch and every request answered 400 leave
\* the store as it was.
C10_Frame ==
    [][/\ (request'.op = "delete" /\ response'.status = 204) =>
            /\ request'.user_id \in Ids(store)
            /\ Ids(store') = Ids(store) \ {request'.user_id}
            /\ \A i \in Ids(store') : store'[i] = store[i]
       /\ (request'.op = "post" /\ response'.status = 201) =>
            /\ Ids(store) \subseteq Ids(store')
            /\ Cardinality(Ids(store') \ Ids(store)) = 1
            /\ \A i \in Ids(store) : store'[i] = store[i]
       /\ (request'.op \in {"list", "get"} \/ response'.status = 400) =>
            store' = store]_vars

\* A create has added a record beside one that was there.
C10_Witness ==
    /\ request.op = "post"
    /\ response.status = 201
    /\ Cardinality(Ids(store)) = 2

====
